---- MODULE Spec2Model ----
(***************************************************************************)
(* Model of arsenal/math/pareto.py: the two frontier extractors            *)
(* (pareto_frontier, pareto_ix) and the query layer of class Pareto.       *)
(* A driver calls pareto_frontier on an input table (the sweep is taken    *)
(* one loop iteration at a time), calls it again on its own output, calls  *)
(* pareto_ix on the same table, constructs a Pareto object over the table  *)
(* and then issues lookup_x / lookup_y queries.                            *)
(***************************************************************************)
EXTENDS Integers, Sequences, FiniteSets, TLC

\* ---------------------------------------------------------------- bounds
MaxLen == 3
MaxVal == 1

Values  == 0..MaxVal
Queries == (0 - 1)..(MaxVal + 1)

\* float('+inf') / float('-inf'): compare above / below every finite value
PosInf == MaxVal + 1
NegInf == 0 - 1

\* np.nan and an ordinary number, as the value a query returns
NaN    == [isnan |-> TRUE,  value |-> 0]
Num(v) == [isnan |-> FALSE, value |-> v]

\* ------------------------------------------------------ library helpers
\* Python tuple comparison "<" restricted to the first n components
\* (n = Len gives the plain tuple comparison; n = 1 is key=first item)
TupleLess(s, t, n) ==
    \E c \in 1..n : (\A j \in 1..(c - 1) : s[j] = t[j]) /\ s[c] < t[c]

Reverse(s) == [i \in 1..Len(s) |-> s[Len(s) + 1 - i]]

\* insert e into the ascending list srt behind every element not greater
Insert(srt, e, n) ==
    LET p == Cardinality({j \in 1..Len(srt) : ~TupleLess(e, srt[j], n)})
    IN  SubSeq(srt, 1, p) \o <<e>> \o SubSeq(srt, p + 1, Len(srt))

RECURSIVE StableSort(_, _)
StableSort(s, n) ==
    IF s = <<>> THEN <<>>
    ELSE Insert(StableSort(SubSeq(s, 1, Len(s) - 1), n), s[Len(s)], n)

\* sorted(s, reverse=r) comparing the first n components: a stable sort;
\* reverse=True reverses, sorts, reverses (equal items keep their order)
sorted(s, n, r) ==
    IF r THEN Reverse(StableSort(Reverse(s), n)) ELSE StableSort(s, n)

zip(X0, Y0) == [i \in 1..Len(X0) |-> <<X0[i], Y0[i]>>]

\* zip(X, Y, range(len(X))): indices are 0-based
zip3(X0, Y0) == [i \in 1..Len(X0) |-> <<X0[i], Y0[i], i - 1>>]

xs(f) == [i \in 1..Len(f) |-> f[i][1]]
ys(f) == [i \in 1..Len(f) |-> f[i][2]]

\* ------------------------------------------------------ pareto_frontier
\* mutant: the pairs are ordered by x alone (stable on the input order)
SortedPairsByX(X0, Y0, mX) == sorted(zip(X0, Y0), 1, mX)

\* a = sorted(zip(X, Y), reverse=maxX)
SortedPairs(X0, Y0, mX) == sorted(zip(X0, Y0), 2, mX)

FrontierInit(mX, mY) ==
    [frontier |-> <<>>,
     lastx    |-> IF mX THEN NegInf ELSE PosInf,
     lasty    |-> IF mY THEN NegInf ELSE PosInf]

\* mutant: the repeated-x test is dropped
FrontierStepNoXTest(st, xy, mY) ==
    LET x == xy[1]
        y == xy[2]
    IN  IF (IF mY THEN y >= st.lasty ELSE y <= st.lasty)
        THEN [frontier |-> Append(st.frontier, xy), lasty |-> y, lastx |-> x]
        ELSE st

\* mutant: lasty / lastx are assigned outside the y test
FrontierStepDedent(st, xy, mY) ==
    LET x == xy[1]
        y == xy[2]
    IN  [frontier |-> IF (IF mY THEN y >= st.lasty ELSE y <= st.lasty)
                         /\ st.lastx # x
                      THEN Append(st.frontier, xy) ELSE st.frontier,
         lasty |-> y, lastx |-> x]

\* body of "for xy in a"
FrontierStep(st, xy, mY) ==
    LET x == xy[1]
        y == xy[2]
    IN  IF mY
        THEN IF y >= st.lasty
             THEN [frontier |-> IF st.lastx # x
                                THEN Append(st.frontier, xy)
                                ELSE st.frontier,
                   lasty |-> y, lastx |-> x]
             ELSE st
        ELSE IF y <= st.lasty
             THEN [frontier |-> IF st.lastx # x
                                THEN Append(st.frontier, xy)
                                ELSE st.frontier,
                   lasty |-> y, lastx |-> x]
             ELSE st

RECURSIVE FrontierSweep(_, _, _)
FrontierSweep(st, rest, mY) ==
    IF rest = <<>> THEN st
    ELSE FrontierSweep(FrontierStep(st, Head(rest), mY), Tail(rest), mY)

pareto_frontier(X0, Y0, mX, mY) ==
    IF Len(X0) = 0 THEN <<>>
    ELSE FrontierSweep(FrontierInit(mX, mY), SortedPairs(X0, Y0, mX), mY).frontier

\* ------------------------------------------------------------ pareto_ix
\* mutant: the triples are ordered by (x, index), y is not a sort key
SortedTriplesByXI(X0, Y0, mX) ==
    LET xiy == [i \in 1..Len(X0) |-> <<X0[i], i - 1, Y0[i]>>]
        s   == sorted(xiy, 2, mX)
    IN  [j \in 1..Len(s) |-> <<s[j][1], s[j][3], s[j][2]>>]

\* a = sorted(zip(X, Y, range(len(X))), reverse=maxX)
SortedTriples(X0, Y0, mX) == sorted(zip3(X0, Y0), 3, mX)

IxStep(st, xyi, mY) ==
    LET x == xyi[1]
        y == xyi[2]
        i == xyi[3]
    IN  IF mY
        THEN IF y >= st.lasty
             THEN [frontier |-> IF st.lastx # x
                                THEN Append(st.frontier, i)
                                ELSE st.frontier,
                   lasty |-> y, lastx |-> x]
             ELSE st
        ELSE IF y <= st.lasty
             THEN [frontier |-> IF st.lastx # x
                                THEN Append(st.frontier, i)
                                ELSE st.frontier,
                   lasty |-> y, lastx |-> x]
             ELSE st

RECURSIVE IxSweep(_, _, _)
IxSweep(st, rest, mY) ==
    IF rest = <<>> THEN st
    ELSE IxSweep(IxStep(st, Head(rest), mY), Tail(rest), mY)

pareto_ix(X0, Y0, mX, mY) ==
    IF Len(X0) = 0 THEN <<>>
    ELSE IxSweep(FrontierInit(mX, mY), SortedTriples(X0, Y0, mX), mY).frontier

\* --------------------------------------------------------- class Pareto
\* Series.argmax() / argmin(): label of the first row holding the extremum
argmax(col, labels) ==
    CHOOSE l \in labels :
        /\ \A m \in labels : col[m + 1] <= col[l + 1]
        /\ \A m \in labels : col[m + 1] = col[l + 1] => l <= m

argmin(col, labels) ==
    CHOOSE l \in labels :
        /\ \A m \in labels : col[m + 1] >= col[l + 1]
        /\ \A m \in labels : col[m + 1] = col[l + 1] => l <= m

\* mutant: the filter is strict (x < q)
lookup_x_strict(dfX, dfY, x) ==
    LET s == {l \in 0..(Len(dfX) - 1) : dfX[l + 1] < x}
    IN  IF s = {} THEN NaN ELSE Num(dfY[argmax(dfY, s) + 1])

\* Pareto.lookup_x over the table with columns dfX, dfY (labels 0..n-1)
lookup_x(dfX, dfY, x) ==
    LET s == {l \in 0..(Len(dfX) - 1) : dfX[l + 1] <= x}
    IN  IF s = {} THEN NaN ELSE Num(dfY[argmax(dfY, s) + 1])

\* Pareto.lookup_y over the table with columns dfX, dfY (labels 0..n-1)
lookup_y(dfX, dfY, y) ==
    LET s == {l \in 0..(Len(dfX) - 1) : dfY[l + 1] >= y}
    IN  IF s = {} THEN NaN ELSE Num(dfX[argmin(dfX, s) + 1])

\* ---------------------------------------------------------------- state
VARIABLES X, Y, maxX, maxY, pc, a, pos, frontier, lastx, lasty,
          ret, ret2, ix, self_frontier, query

vars == <<X, Y, maxX, maxY, pc, a, pos, frontier, lastx, lasty,
          ret, ret2, ix, self_frontier, query>>

inputs == <<X, Y, maxX, maxY>>
locals == <<a, pos, frontier, lastx, lasty>>

Init ==
    /\ \E n \in 0..MaxLen : X \in [1..n -> Values] /\ Y \in [1..n -> Values]
    /\ maxX \in BOOLEAN
    /\ maxY \in BOOLEAN
    /\ pc = "call"
    /\ a = <<>>
    /\ pos = 0
    /\ frontier = <<>>
    /\ lastx = 0
    /\ lasty = 0
    /\ ret = <<>>
    /\ ret2 = <<>>
    /\ ix = <<>>
    /\ self_frontier = <<>>
    /\ query = [op |-> "none", arg |-> 0, result |-> NaN]

\* pareto_frontier, entry: empty input returns [] at once
FrontierEmpty ==
    /\ pc = "call"
    /\ Len(X) = 0
    /\ ret' = <<>>
    /\ pc' = "returned"
    /\ UNCHANGED <<inputs, locals, ret2, ix, self_frontier, query>>

\* pareto_frontier, entry: sort and initialise the sweep
FrontierSort ==
    /\ pc = "call"
    /\ Len(X) # 0
    /\ a' = SortedPairs(X, Y, maxX)
    /\ pos' = 0
    /\ frontier' = FrontierInit(maxX, maxY).frontier
    /\ lastx' = FrontierInit(maxX, maxY).lastx
    /\ lasty' = FrontierInit(maxX, maxY).lasty
    /\ pc' = "sweep"
    /\ UNCHANGED <<inputs, ret, ret2, ix, self_frontier, query>>

\* pareto_frontier, one iteration of the loop
FrontierLoop ==
    /\ pc = "sweep"
    /\ pos < Len(a)
    /\ LET st == FrontierStep([frontier |-> frontier, lastx |-> lastx,
                               lasty |-> lasty], a[pos + 1], maxY)
       IN  /\ frontier' = st.frontier
           /\ lastx' = st.lastx
           /\ lasty' = st.lasty
    /\ pos' = pos + 1
    /\ UNCHANGED <<inputs, pc, a, ret, ret2, ix, self_frontier, query>>

\* pareto_frontier, return frontier
FrontierReturn ==
    /\ pc = "sweep"
    /\ pos = Len(a)
    /\ ret' = frontier
    /\ pc' = "returned"
    /\ UNCHANGED <<inputs, locals, ret2, ix, self_frontier, query>>

\* pareto_frontier applied to the coordinates of its own output
Reapply ==
    /\ pc = "returned"
    /\ ret2' = pareto_frontier(xs(ret), ys(ret), maxX, maxY)
    /\ pc' = "reapplied"
    /\ UNCHANGED <<inputs, locals, ret, ix, self_frontier, query>>

\* pareto_ix on the same input and flags
CallIx ==
    /\ pc = "reapplied"
    /\ ix' = pareto_ix(X, Y, maxX, maxY)
    /\ pc' = "indexed"
    /\ UNCHANGED <<inputs, locals, ret, ret2, self_frontier, query>>

\* Pareto.__init__(df, xcol, ycol): pareto_ix with its default flags
ParetoInit ==
    /\ pc = "indexed"
    /\ self_frontier' = pareto_ix(X, Y, TRUE, TRUE)
    /\ \A i \in 1..Len(X) : X[i] \in Values /\ Y[i] \in Values
    /\ pc' = "constructed"
    /\ UNCHANGED <<inputs, locals, ret, ret2, ix, query>>

LookupX ==
    /\ pc = "constructed"
    /\ \E q \in Queries :
          query' = [op |-> "lookup_x", arg |-> q, result |-> lookup_x(X, Y, q)]
    /\ UNCHANGED <<inputs, locals, pc, ret, ret2, ix, self_frontier>>

LookupY ==
    /\ pc = "constructed"
    /\ \E q \in Queries :
          query' = [op |-> "lookup_y", arg |-> q, result |-> lookup_y(X, Y, q)]
    /\ UNCHANGED <<inputs, locals, pc, ret, ret2, ix, self_frontier>>

Next ==
    \/ FrontierEmpty
    \/ FrontierSort
    \/ FrontierLoop
    \/ FrontierReturn
    \/ Reapply
    \/ CallIx
    \/ ParetoInit
    \/ LookupX
    \/ LookupY

Spec == Init /\ [][Next]_vars

TypeOK ==
    /\ Len(X) = Len(Y)
    /\ pc \in {"call", "sweep", "returned", "reapplied", "indexed", "constructed"}
    /\ pos \in 0..Len(a)

\* ------------------------------------------------------------ properties
Returned == pc \in {"returned", "reapplied", "indexed", "constructed"}

\* "at least as good" on one axis, per its direction flag
AtLeast(u, v, mx) == IF mx THEN u >= v ELSE u <= v

\* A dominates B: at least as good on both axes, strictly better on one
Dominates(A, B, mX, mY) ==
    /\ AtLeast(A[1], B[1], mX)
    /\ AtLeast(A[2], B[2], mY)
    /\ (A[1] # B[1] \/ A[2] # B[2])

StrictMonoX(f, mX) ==
    \A i \in 1..(Len(f) - 1) :
        IF mX THEN f[i][1] > f[i + 1][1] ELSE f[i][1] < f[i + 1][1]

NoRepeatedX(f) ==
    \A i, j \in 1..Len(f) : f[i][1] = f[j][1] => i = j

\* C1: every input point is weakly dominated by some returned point (at
\* least as good in x and in y per the direction flags).
C1_Coverage ==
    Returned =>
        \A i \in 1..Len(X) : \E j \in 1..Len(ret) :
            AtLeast(ret[j][1], X[i], maxX) /\ AtLeast(ret[j][2], Y[i], maxY)

\* C2: no returned point is dominated by any point of the full input.
C2_NonDomination ==
    Returned =>
        \A j \in 1..Len(ret) : \A i \in 1..Len(X) :
            ~Dominates(<<X[i], Y[i]>>, ret[j], maxX, maxY)

\* C3: the frontier is strictly monotonic in x (decreasing when maxX, else
\* increasing) and has no repeated x, at every step of the sweep and in the
\* returned list.
C3_StrictlyMonotonicX ==
    /\ StrictMonoX(frontier, maxX) /\ NoRepeatedX(frontier)
    /\ StrictMonoX(ret, maxX) /\ NoRepeatedX(ret)

\* the sweep has returned two or more points from an input in which an x
\* value is repeated and more points were swept than kept
C3_Witness ==
    /\ pc = "returned"
    /\ Len(ret) >= 2
    /\ Len(ret) < Len(X)
    /\ \E i, j \in 1..Len(X) : i # j /\ X[i] = X[j]

\* C4: pareto_frontier applied to the coordinates of its own output, with
\* the same flags, returns the same list.
C4_FixedPoint ==
    pc \in {"reapplied", "indexed", "constructed"} => ret2 = ret

\* the second call ran on a frontier of two or more points that is
\* shorter than the input
C4_Witness ==
    /\ pc = "reapplied"
    /\ Len(ret) >= 2
    /\ Len(ret) < Len(X)
    /\ ret2 = ret

\* C5: re-indexing X and Y by the indices pareto_ix returns gives the list
\* pareto_frontier returns, element for element.
C5_IndexValueAgreement ==
    pc \in {"indexed", "constructed"} =>
        [j \in 1..Len(ix) |-> <<X[ix[j] + 1], Y[ix[j] + 1]>>] = ret

\* pareto_ix has returned indices for an input that holds a duplicated pair
\* and a repeated x with different y
C5_Witness ==
    /\ pc = "indexed"
    /\ Len(ix) >= 1
    /\ \E i, j \in 1..Len(X) : i # j /\ X[i] = X[j] /\ Y[i] = Y[j]
    /\ \E i, j \in 1..Len(X) : X[i] = X[j] /\ Y[i] # Y[j]

SetMax(S) == CHOOSE m \in S : \A v \in S : v <= m
SetMin(S) == CHOOSE m \in S : \A v \in S : m <= v

QueryResultOK ==
    /\ query.op = "lookup_x" =>
          LET S == {Y[i] : i \in {r \in 1..Len(X) : X[r] <= query.arg}}
          IN  IF S = {} THEN query.result = NaN
              ELSE query.result = Num(SetMax(S))
    /\ query.op = "lookup_y" =>
          LET S == {X[i] : i \in {r \in 1..Len(X) : Y[r] >= query.arg}}
          IN  IF S = {} THEN query.result = NaN
              ELSE query.result = Num(SetMin(S))

C7_FrontierSuffices ==
    LET F == pareto_frontier(X, Y, FALSE, TRUE)
    IN  /\ query.op = "lookup_x" =>
              lookup_x(xs(F), ys(F), query.arg) = query.result
        /\ query.op = "lookup_y" =>
              lookup_y(xs(F), ys(F), query.arg) = query.result

\* C8: a returned point with x-value v carries the best y among all input
\* points whose x equals v.
C8_TiesCollapseToBestY ==
    Returned =>
        \A j \in 1..Len(ret) : \A i \in 1..Len(X) :
            X[i] = ret[j][1] => AtLeast(ret[j][2], Y[i], maxY)

\* C9 as stated: the pairs are ordered by x alone with a stable sort, and
\* the result is that of the sweep over the input stably sorted by x only.
C9_SortByXOnly ==
    /\ pc = "sweep" => a = sorted(zip(X, Y), 1, maxX)
    /\ Returned =>
          ret = IF Len(X) = 0 THEN <<>>
                ELSE FrontierSweep(FrontierInit(maxX, maxY),
                                   sorted(zip(X, Y), 1, maxX), maxY).frontier

Count(s, e) == Cardinality({i \in 1..Len(s) : s[i] = e})

\* C9 amended: the swept list is a permutation of the input pairs ordered
\* by x and, among equal x, by y, both descending if maxX and both
\* ascending otherwise.
C9_SortByXThenY ==
    pc = "sweep" =>
        /\ Len(a) = Len(X)
        /\ \A e \in Values \X Values : Count(a, e) = Count(zip(X, Y), e)
        /\ \A i, j \in 1..Len(a) : i < j =>
              IF maxX
              THEN a[i][1] > a[j][1] \/ (a[i][1] = a[j][1] /\ a[i][2] >= a[j][2])
              ELSE a[i][1] < a[j][1] \/ (a[i][1] = a[j][1] /\ a[i][2] <= a[j][2])

\* the sweep is under way over an input whose equal-x points are not swept
\* in their input order
C9_Witness ==
    /\ pc = "sweep"
    /\ pos > 0
    /\ a # sorted(zip(X, Y), 1, maxX)

\* C10: the stored frontier is pareto_ix(X, Y, maxX=False, maxY=True), and
\* the row a query answers from is at an index it contains.
C10_StoredFrontierMatchesQueries ==
    pc = "constructed" =>
        /\ self_frontier = pareto_ix(X, Y, FALSE, TRUE)
        /\ query.op = "lookup_x" /\ ~query.result.isnan =>
              \E j \in 1..Len(self_frontier) :
                  self_frontier[j] =
                      argmax(Y, {l \in 0..(Len(X) - 1) : X[l + 1] <= query.arg})
        /\ query.op = "lookup_y" /\ ~query.result.isnan =>
              \E j \in 1..Len(self_frontier) :
                  self_frontier[j] =
                      argmin(X, {l \in 0..(Len(X) - 1) : Y[l + 1] >= query.arg})

====
